---- MODULE Spec2Model ----
(***************************************************************************)
(* A model of the jobserver client facade (src/src/lib.rs): the Client     *)
(* handle, the Acquired RAII token, and the helper thread driven by        *)
(* HelperState.  The platform engine (imp::Client, imp::spawn_helper,      *)
(* imp::Helper::join) is not part of lib.rs; it is modelled from the       *)
(* engine contract of spec.md sections 4.2 and 4.5.                        *)
(***************************************************************************)
EXTENDS Naturals, Sequences, FiniteSets, TLC

(* ------------------------------ bounds --------------------------------- *)
MaxLimit == 2
NThreads == 3
MaxCallers == 2
MaxClients == 2
MaxTokens == 3
MaxRaw == 1
MaxRequests == 2
MaxChunks == 4
MaxErrs == 2

\* The threads of the program; the first MaxCallers of them make arbitrary
\* calls, all of them take part in the bounded-parallelism scenario.
Threads == 1..NThreads
Callers == 1..MaxCallers
ClientIds == 1..MaxClients
TokenIds == 1..MaxTokens
\* Engine objects (imp::Client behind an Arc).  Client::new creates engine 1;
\* a second object exists only if a handle is made otherwise than by sharing.
EngineIds == {1, 2}

(* ------------------------------ values --------------------------------- *)
\* The byte written into the pipe when the pool is created.
TokenByte == "|"
\* The placeholder byte written by a release without payload.
PlusByte == "+"
\* "no payload" (Option::None) / "no token" (Option::None).
NoData == "none"
NoEngine == 0
NoTok == 0

VARIABLES
    limit,        \* the argument of Client::new
    pool,         \* per engine: the bytes buffered in its pipe, oldest first
    strong,       \* per engine: strong references of its Arc<imp::Client>
    closed,       \* per engine: its resources were closed (the Arc was freed)
    ceng,         \* per Client handle: the engine its `inner` points to, or NoEngine
    acq,          \* the Acquired values, by identity
    tpc,          \* each caller thread: the call it is in
    teng,         \* each caller thread: the engine of the Client its call borrows
    thold,        \* each thread: the Acquired value bound to its local, if it keeps one
    nAcquireRaw,  \* completed acquire_raw calls
    nReleaseRaw,  \* completed release_raw calls
    inner,        \* HelperInner: requests, producer_done, consumer_done
    lockOwner,    \* HelperState.lock: who holds the mutex
    wpc,          \* the helper worker's position
    hpc,          \* the HelperThread owner's position
    weng,         \* the engine of the Client moved into the helper worker
    nRequested,   \* request_token calls made
    callbacks,    \* invocations of the user callback
    env,          \* the environment of this process, inherited by a child
    cmdEnv,       \* Command: the variables set on the child launch descriptor
    inherit,      \* Command: the engines whose handles the child launch carries
    childEnv,     \* the environment of the launched child process
    fromEnv,      \* the child: the FromEnv returned by from_env_ext
    nOpen,        \* the child: calls of imp::Client::open
    childTok,     \* the child: the byte of the token it holds
    childDone,    \* the child: it has acquired a token and released it
    var,          \* the argument of a find_jobserver_auth call
    found,        \* the value that call returned
    nEngErr,      \* I/O errors the engine has returned
    lastErr,      \* the last of them
    nSeen,        \* errors handed to a caller or to the callback
    lastSeen      \* the last of them, and who got it

vars == <<limit, pool, strong, closed, ceng, acq, tpc, teng, thold,
          nAcquireRaw, nReleaseRaw, inner, lockOwner, wpc, hpc, weng,
          nRequested, callbacks, env, cmdEnv, inherit, childEnv, fromEnv,
          nOpen, childTok, childDone, var, found, nEngErr, lastErr, nSeen,
          lastSeen>>

envVars == <<env, cmdEnv, inherit, childEnv, fromEnv, nOpen, childTok, childDone>>
parseVars == <<var, found>>
errVars == <<nEngErr, lastErr, nSeen, lastSeen>>
extVars == <<envVars, parseVars, errVars>>
threadVars == <<tpc, teng, thold>>
rawVars == <<nAcquireRaw, nReleaseRaw>>
helperVars == <<inner, lockOwner, wpc, hpc, weng, nRequested, callbacks>>
coreVars == <<limit, pool, strong, closed, ceng, acq, threadVars, rawVars>>
clientVars == <<extVars, coreVars>>

(* ------------------------- platform engine ----------------------------- *)
\* imp::Client::new(limit): exactly `limit` bytes are written into the pipe.
EngineNew(n) == [i \in 1..n |-> TokenByte]

\* imp::Client::acquire can return only when a byte is buffered.
EngineCanAcquire(p) == p # <<>>

\* imp::Client::try_acquire: a single non-blocking one-byte read.
EngineTryAcquire(p) ==
    IF p = <<>> THEN [data |-> NoData, pool |-> p]
                ELSE [data |-> Head(p), pool |-> Tail(p)]

\* imp::Client::release(payload): one byte is written, the payload or '+'.
EngineRelease(p, payload) ==
    Append(p, IF payload = NoData THEN PlusByte ELSE payload)

(* --------------------------- Acquired ---------------------------------- *)
\* No Acquired value (also Option::None as a return value).
NoAcquired ==
    [st |-> "none", client |-> NoEngine, data |-> NoData, disabled |-> FALSE,
     releases |-> 0]

\* Acquired { client: self.inner.clone(), data, disabled: false }
NewAcquired(e, data) ==
    [st |-> "live", client |-> e, data |-> data, disabled |-> FALSE, releases |-> 0]

\* A buggy drop that releases whatever `disabled` says.
AcquiredDrop_IgnoreDisabled(a, p) ==
    [acq  |-> [a EXCEPT !.st = "dropped", !.releases = @ + 1],
     pool |-> EngineRelease(p, a.data)]

\* A buggy drop that releases the token twice.
AcquiredDrop_ReleaseTwice(a, p) ==
    IF ~a.disabled
    THEN [acq  |-> [a EXCEPT !.st = "dropped", !.releases = @ + 2],
          pool |-> EngineRelease(EngineRelease(p, a.data), a.data)]
    ELSE [acq  |-> [a EXCEPT !.st = "dropped"], pool |-> p]

\* A buggy drop that never gives the token back.
AcquiredDrop_NeverRelease(a, p) ==
    [acq  |-> [a EXCEPT !.st = "dropped"], pool |-> p]

\* impl Drop for Acquired: release with the payload unless disabled.
\* `releases` counts the engine releases performed for this value.
AcquiredDrop(a, p) ==
    IF ~a.disabled
    THEN [acq  |-> [a EXCEPT !.st = "dropped", !.releases = @ + 1],
          pool |-> EngineRelease(p, a.data)]
    ELSE [acq  |-> [a EXCEPT !.st = "dropped"], pool |-> p]

\* Client::acquire on engine e with pipe contents p (a byte is buffered).
ClientAcquire(e, p) ==
    LET r == EngineTryAcquire(p) IN
    [ret |-> NewAcquired(e, r.data), pool |-> r.pool]

\* A buggy try_acquire that wraps the engine's answer in Some unconditionally.
ClientTryAcquire_AlwaysSome(e, p) ==
    LET r == EngineTryAcquire(p) IN
    [ret |-> NewAcquired(e, r.data), pool |-> r.pool]

\* Client::try_acquire: ret.map(|data| Acquired { .. }).
ClientTryAcquire(e, p) ==
    LET r == EngineTryAcquire(p) IN
    [ret  |-> IF r.data # NoData THEN NewAcquired(e, r.data) ELSE NoAcquired,
     pool |-> r.pool]

clients == {c \in ClientIds : ceng[c] # NoEngine}
LiveTokens == {k \in TokenIds : acq[k].st = "live"}
FreeTokens == {k \in TokenIds : acq[k].st = "none"}
\* The identity of the next Acquired value created.
NextTok == CHOOSE k \in FreeTokens : \A j \in FreeTokens : k <= j
FreeClients == ClientIds \ clients
NextClient == CHOOSE c \in FreeClients : \A d \in FreeClients : c <= d

\* Token identities promised to calls in flight (threads inside acquire or
\* try_acquire, helper requests not yet served): a call is begun only while
\* an identity is left for the Acquired value it may create.
Reserved ==
    Cardinality({t \in Threads : tpc[t] \in {"acquire", "try_acquire"}})
    + inner.requests + (IF wpc \in {"acquire", "interrupted"} THEN 1 ELSE 0)
CanReserve == Cardinality(FreeTokens) > Reserved

\* A buggy clone of the Arc that does not count the new reference.
ArcClone_NoCount(e) ==
    /\ UNCHANGED strong
    /\ UNCHANGED closed

\* Arc::clone: one more strong reference to engine e.
ArcClone(e) ==
    /\ strong' = [strong EXCEPT ![e] = @ + 1]
    /\ UNCHANGED closed

\* Arc drop: one strong reference less; the engine closes with the last.
ArcDrop(e) ==
    /\ strong' = [strong EXCEPT ![e] = @ - 1]
    /\ closed' = [closed EXCEPT ![e] = (strong[e] - 1 = 0)]

(* ------------------------ strings and options ------------------------- *)
\* A string is the sequence of its characters.  An OsString may also hold
\* BadByte, a byte sequence that is not valid UTF-8.
BadByte == "<ff>"
\* Option<T>: None and Some(v).
None == [some |-> FALSE, val |-> <<>>]
Some(v) == [some |-> TRUE, val |-> v]

\* OsStr::to_str: the same text if it is valid UTF-8, else None.
ToStr(os) ==
    IF \E i \in 1..Len(os) : os[i] = BadByte THEN None ELSE Some(os)

\* The flags looked for by find_jobserver_auth.
AuthFlag == <<"-", "-", "j", "o", "b", "s", "e", "r", "v", "e", "r", "-", "a", "u", "t", "h", "=">>
FdsFlag == <<"-", "-", "j", "o", "b", "s", "e", "r", "v", "e", "r", "-", "f", "d", "s", "=">>

\* pat occurs in v at position i.
IsAt(v, pat, i) ==
    /\ i >= 1
    /\ i + Len(pat) - 1 <= Len(v)
    /\ SubSeq(v, i, i + Len(pat) - 1) = pat

\* The search of str::rsplit_once: the match found scanning backwards
\* from position i, or 0.
RECURSIVE RFind(_, _, _)
RFind(v, pat, i) ==
    IF i < 1 THEN 0
    ELSE IF IsAt(v, pat, i) THEN i
    ELSE RFind(v, pat, i - 1)

\* str::rsplit_once(pat).map(|(_, s)| s): the text after the last match.
RSplitOnceAfter(v, pat) ==
    LET i == RFind(v, pat, Len(v) - Len(pat) + 1) IN
    IF i = 0 THEN None ELSE Some(SubSeq(v, i + Len(pat), Len(v)))

\* s.split(' ').next(): the text before the first space (always Some).
RECURSIVE SplitNext(_)
SplitNext(s) ==
    IF s = <<>> \/ Head(s) = " " THEN <<>>
    ELSE <<Head(s)>> \o SplitNext(Tail(s))

\* [a, b].iter().find_map(f): the first Some among f(a), f(b).
FindMap2(a, b) == IF a.some THEN a ELSE b

\* A buggy search in which the first occurrence of a flag wins (split_once
\* instead of rsplit_once).
FindJobserverAuth_FirstWins(v) ==
    LET After(pat) ==
            LET S == {i \in 1..Len(v) : IsAt(v, pat, i)} IN
            IF S = {} THEN None
            ELSE LET i == CHOOSE i \in S : \A j \in S : i <= j IN
                 Some(SubSeq(v, i + Len(pat), Len(v)))
        s == FindMap2(After(AuthFlag), After(FdsFlag)) IN
    IF s.some THEN Some(SplitNext(s.val)) ELSE None

\* find_jobserver_auth(var)
FindJobserverAuth(v) ==
    LET s == FindMap2(RSplitOnceAfter(v, AuthFlag), RSplitOnceAfter(v, FdsFlag)) IN
    IF s.some THEN Some(SplitNext(s.val)) ELSE None

\* The variables from_env_ext looks at, in its order.
EnvNames == <<"CARGO_MAKEFLAGS", "MAKEFLAGS", "MFLAGS">>
EnvNameSet == {EnvNames[i] : i \in 1..Len(EnvNames)}
\* An environment or a Command with none of them set.
NoEnv == [n \in EnvNameSet |-> None]
\* No call made yet.
NotCalled == [called |-> FALSE, ret |-> None]

(* ------------------------------ Init ----------------------------------- *)
HelperInit ==
    /\ inner = [requests |-> 0, producer_done |-> FALSE, consumer_done |-> FALSE]
    /\ lockOwner = "none"
    /\ wpc = "none"
    /\ hpc = "none"
    /\ weng = NoEngine
    /\ nRequested = 0
    /\ callbacks = 0

\* A buggy constructor that primes the pipe with one byte too many.
ClientNew_OffByOne(n) ==
    /\ limit = n
    /\ pool = [e \in EngineIds |-> IF e = 1 THEN EngineNew(n + 1) ELSE <<>>]
    /\ strong = [e \in EngineIds |-> IF e = 1 THEN 1 ELSE 0]
    /\ closed = [e \in EngineIds |-> FALSE]
    /\ ceng = [c \in ClientIds |-> IF c = 1 THEN 1 ELSE NoEngine]

\* Client::new(limit): Client { inner: Arc::new(imp::Client::new(limit)?) }
ClientNew(n) ==
    /\ limit = n
    /\ pool = [e \in EngineIds |-> IF e = 1 THEN EngineNew(n) ELSE <<>>]
    /\ strong = [e \in EngineIds |-> IF e = 1 THEN 1 ELSE 0]
    /\ closed = [e \in EngineIds |-> FALSE]
    /\ ceng = [c \in ClientIds |-> IF c = 1 THEN 1 ELSE NoEngine]

CallersInit ==
    /\ acq = [k \in TokenIds |-> NoAcquired]
    /\ tpc = [t \in Threads |-> "idle"]
    /\ teng = [t \in Threads |-> NoEngine]
    /\ thold = [t \in Threads |-> NoTok]
    /\ nAcquireRaw = 0
    /\ nReleaseRaw = 0

\* No child is being launched, from_env_ext and find_jobserver_auth were not
\* called; the process environment has none of the variables.
ChildInit ==
    /\ cmdEnv = NoEnv
    /\ inherit = {}
    /\ childEnv = None
    /\ fromEnv = NotCalled
    /\ nOpen = 0
    /\ childTok = NoData
    /\ childDone = FALSE

ParseInit ==
    /\ var = <<>>
    /\ found = NotCalled

\* No error seen by anyone.
NoSeen == [who |-> "nobody", err |-> "none"]

\* The engine has returned no error.
ErrInit ==
    /\ nEngErr = 0
    /\ lastErr = "none"
    /\ nSeen = 0
    /\ lastSeen = NoSeen

Init ==
    /\ \E n \in 0..MaxLimit : ClientNew(n)
    /\ CallersInit
    /\ HelperInit
    /\ env = NoEnv
    /\ ChildInit
    /\ ParseInit
    /\ ErrInit

(* --------------------------- Client facade ----------------------------- *)
\* A buggy clone that builds an engine of its own instead of sharing.
Clone_NewEngine(c) ==
    /\ c \in clients
    /\ FreeClients # {}
    /\ strong[2] = 0 /\ ~closed[2]
    /\ ceng' = [ceng EXCEPT ![NextClient] = 2]
    /\ pool' = [pool EXCEPT ![2] = EngineNew(limit)]
    /\ strong' = [strong EXCEPT ![2] = 1]
    /\ UNCHANGED <<extVars, limit, closed, acq, threadVars, rawVars, helperVars>>

\* #[derive(Clone)] on Client: the new handle shares the Arc.
Clone(c) ==
    /\ c \in clients
    /\ FreeClients # {}
    /\ ceng' = [ceng EXCEPT ![NextClient] = ceng[c]]
    /\ ArcClone(ceng[c])
    /\ UNCHANGED <<extVars, limit, pool, acq, threadVars, rawVars, helperVars>>

\* A Client handle goes out of scope.  A call in flight borrows a handle of
\* its engine, which therefore outlives the call.
DropClient(c) ==
    /\ c \in clients
    /\ \A t \in Threads :
          teng[t] = ceng[c] => \E d \in clients \ {c} : ceng[d] = ceng[c]
    /\ ceng' = [ceng EXCEPT ![c] = NoEngine]
    /\ ArcDrop(ceng[c])
    /\ UNCHANGED <<extVars, limit, pool, acq, threadVars, rawVars, helperVars>>

\* A thread enters a call `op` on handle c.
Call(t, c, op) ==
    /\ tpc[t] = "idle"
    /\ c \in clients
    /\ tpc' = [tpc EXCEPT ![t] = op]
    /\ teng' = [teng EXCEPT ![t] = ceng[c]]
    /\ UNCHANGED thold
    /\ UNCHANGED <<extVars, limit, pool, strong, closed, ceng, acq, rawVars, helperVars>>

\* The thread's call returns.
Return(t) ==
    /\ tpc' = [tpc EXCEPT ![t] = "idle"]
    /\ teng' = [teng EXCEPT ![t] = NoEngine]

\* The engine behind the handle that thread t's call borrows.
EngineOf(t) == teng[t]

AcquireCall(t, c) ==
    /\ CanReserve
    /\ Call(t, c, "acquire")

\* Client::acquire returns: a byte was read and is wrapped in an Acquired.
\* With `bind` the caller keeps the value in a local of its own
\* (let a = client.acquire()); otherwise it passes the value on.
AcquireReturn(t, bind) ==
    /\ tpc[t] = "acquire"
    /\ EngineCanAcquire(pool[EngineOf(t)])
    /\ LET e == EngineOf(t)
           r == ClientAcquire(e, pool[e]) IN
        /\ pool' = [pool EXCEPT ![e] = r.pool]
        /\ acq' = [acq EXCEPT ![NextTok] = r.ret]
        /\ ArcClone(e)
    /\ Return(t)
    /\ thold' = IF bind THEN [thold EXCEPT ![t] = NextTok] ELSE thold
    /\ UNCHANGED <<extVars, limit, ceng, rawVars, helperVars>>

TryAcquireCall(t, c) ==
    /\ CanReserve
    /\ Call(t, c, "try_acquire")

\* Client::try_acquire returns Some(Acquired) or None.
TryAcquireReturn(t) ==
    /\ tpc[t] = "try_acquire"
    /\ LET e == EngineOf(t)
           r == ClientTryAcquire(e, pool[e]) IN
        /\ pool' = [pool EXCEPT ![e] = r.pool]
        /\ IF r.ret # NoAcquired
           THEN /\ acq' = [acq EXCEPT ![NextTok] = r.ret]
                /\ ArcClone(e)
                /\ Return(t)
           ELSE /\ UNCHANGED <<acq, strong, closed>>
                /\ Return(t)
    /\ UNCHANGED <<extVars, limit, ceng, thold, rawVars, helperVars>>

AcquireRawCall(t, c) ==
    /\ nAcquireRaw < MaxRaw
    /\ \A u \in Threads : tpc[u] # "acquire_raw"
    /\ Call(t, c, "acquire_raw")

\* Client::acquire_raw returns: the byte read is discarded.
AcquireRawReturn(t) ==
    /\ tpc[t] = "acquire_raw"
    /\ EngineCanAcquire(pool[EngineOf(t)])
    /\ pool' = [pool EXCEPT ![EngineOf(t)] = EngineTryAcquire(@).pool]
    /\ nAcquireRaw' = nAcquireRaw + 1
    /\ Return(t)
    /\ UNCHANGED <<extVars, limit, strong, closed, ceng, acq, thold, nReleaseRaw, helperVars>>

\* A buggy release_raw that releases twice.
ReleaseRaw_TwoBytes(t, c) ==
    /\ tpc[t] = "idle"
    /\ c \in clients
    /\ nReleaseRaw < MaxRaw
    /\ pool' = [pool EXCEPT ![ceng[c]] =
                    EngineRelease(EngineRelease(@, NoData), NoData)]
    /\ nReleaseRaw' = nReleaseRaw + 1
    /\ UNCHANGED <<extVars, limit, strong, closed, ceng, acq, threadVars, nAcquireRaw,
                   helperVars>>

\* Client::release_raw: self.inner.release(None).
ReleaseRaw(t, c) ==
    /\ tpc[t] = "idle"
    /\ c \in clients
    /\ nReleaseRaw < MaxRaw
    /\ pool' = [pool EXCEPT ![ceng[c]] = EngineRelease(@, NoData)]
    /\ nReleaseRaw' = nReleaseRaw + 1
    /\ UNCHANGED <<extVars, limit, strong, closed, ceng, acq, threadVars, nAcquireRaw,
                   helperVars>>

\* An Acquired value goes out of scope: Drop::drop, then its Arc is dropped.
DropAcquired(k) ==
    /\ acq[k].st = "live"
    /\ LET e == acq[k].client
           r == AcquiredDrop(acq[k], pool[e]) IN
        /\ acq' = [acq EXCEPT ![k] = r.acq]
        /\ pool' = [pool EXCEPT ![e] = r.pool]
        /\ ArcDrop(e)
    /\ UNCHANGED <<extVars, limit, ceng, threadVars, rawVars, helperVars>>

\* Acquired::drop_without_releasing: self.disabled = true, then self is dropped.
DropWithoutReleasing(k) ==
    /\ acq[k].st = "live"
    /\ LET e == acq[k].client
           r == AcquiredDrop([acq[k] EXCEPT !.disabled = TRUE], pool[e]) IN
        /\ acq' = [acq EXCEPT ![k] = r.acq]
        /\ pool' = [pool EXCEPT ![e] = r.pool]
        /\ ArcDrop(e)
    /\ UNCHANGED <<extVars, limit, ceng, threadVars, rawVars, helperVars>>

(* ------------------------- the client specification -------------------- *)
Next ==
    \/ \E c \in ClientIds : Clone(c)
    \/ \E c \in ClientIds : DropClient(c)
    \/ \E t \in Callers, c \in ClientIds : AcquireCall(t, c)
    \/ \E t \in Callers : AcquireReturn(t, FALSE)
    \/ \E t \in Callers, c \in ClientIds : TryAcquireCall(t, c)
    \/ \E t \in Callers : TryAcquireReturn(t)
    \/ \E t \in Callers, c \in ClientIds : AcquireRawCall(t, c)
    \/ \E t \in Callers : AcquireRawReturn(t)
    \/ \E t \in Callers, c \in ClientIds : ReleaseRaw(t, c)
    \/ \E k \in TokenIds : DropAcquired(k)
    \/ \E k \in TokenIds : DropWithoutReleasing(k)

Spec == Init /\ [][Next]_vars

(* --------------------------- helper thread ----------------------------- *)
\* Condvar::notify_one on HelperState.cvar: a worker parked in cvar.wait is
\* woken and goes on to re-acquire the mutex; otherwise nothing happens.
NotifyOne == wpc' = IF wpc = "wait" THEN "lock" ELSE wpc

\* Client::into_helper_thread(self, f): the handle moves into a new worker
\* thread, which starts in for_each_request with a fresh HelperState.
IntoHelperThread(c) ==
    /\ hpc = "none"
    /\ c \in clients
    /\ \A t \in Threads :
          teng[t] = ceng[c] => \E d \in clients \ {c} : ceng[d] = ceng[c]
    /\ ceng' = [ceng EXCEPT ![c] = NoEngine]
    /\ weng' = ceng[c]
    /\ wpc' = "lock"
    /\ hpc' = "ready"
    /\ UNCHANGED <<extVars, limit, pool, strong, closed, acq, threadVars, rawVars,
                   inner, lockOwner, nRequested, callbacks>>

\* HelperThread::request_token, first statement: requests += 1 under the lock.
RequestToken ==
    /\ hpc = "ready"
    /\ lockOwner = "none"
    /\ nRequested < MaxRequests
    /\ CanReserve
    /\ inner' = [inner EXCEPT !.requests = @ + 1]
    /\ nRequested' = nRequested + 1
    /\ hpc' = "req_notify"
    /\ UNCHANGED <<clientVars, lockOwner, wpc, weng, callbacks>>

\* A request_token that forgets to wake the worker.
RequestNotify_NoNotify ==
    /\ hpc = "req_notify"
    /\ hpc' = "ready"
    /\ UNCHANGED <<clientVars, inner, lockOwner, wpc, weng, nRequested, callbacks>>

\* HelperThread::request_token, second statement: cvar.notify_one().
RequestNotify ==
    /\ hpc = "req_notify"
    /\ NotifyOne
    /\ hpc' = "ready"
    /\ UNCHANGED <<clientVars, inner, lockOwner, weng, nRequested, callbacks>>

\* The HelperThread goes out of scope: Drop::drop is entered.
DropBegin ==
    /\ hpc = "ready"
    /\ hpc' = "drop_lock"
    /\ UNCHANGED <<clientVars, inner, lockOwner, wpc, weng, nRequested, callbacks>>

\* Drop for HelperThread: self.state.lock().producer_done = true.
DropSetDone ==
    /\ hpc = "drop_lock"
    /\ lockOwner = "none"
    /\ inner' = [inner EXCEPT !.producer_done = TRUE]
    /\ hpc' = "drop_notify"
    /\ UNCHANGED <<clientVars, lockOwner, wpc, weng, nRequested, callbacks>>

\* A drop that forgets to wake the worker.
DropNotify_NoNotify ==
    /\ hpc = "drop_notify"
    /\ hpc' = "join"
    /\ UNCHANGED <<clientVars, inner, lockOwner, wpc, weng, nRequested, callbacks>>

\* A drop that does not join the worker.
DropNotify_NoJoin ==
    /\ hpc = "drop_notify"
    /\ NotifyOne
    /\ hpc' = "dropped"
    /\ UNCHANGED <<clientVars, inner, lockOwner, weng, nRequested, callbacks>>

\* Drop for HelperThread: self.state.cvar.notify_one(), then join is entered.
DropNotify ==
    /\ hpc = "drop_notify"
    /\ NotifyOne
    /\ hpc' = "join"
    /\ UNCHANGED <<clientVars, inner, lockOwner, weng, nRequested, callbacks>>

\* imp::Helper::join, unblocking: a worker blocked in acquire is interrupted.
Interrupt ==
    /\ hpc = "join"
    /\ wpc = "acquire"
    /\ wpc' = "interrupted"
    /\ UNCHANGED <<clientVars, inner, lockOwner, hpc, weng, nRequested, callbacks>>

\* imp::Helper::join returns once the worker has exited; drop returns.
JoinReturn ==
    /\ hpc = "join"
    /\ wpc = "exited"
    /\ hpc' = "dropped"
    /\ UNCHANGED <<clientVars, inner, lockOwner, wpc, weng, nRequested, callbacks>>

\* for_each_request: self.lock(), at entry and after f returns; also the
\* re-acquisition of the mutex when cvar.wait wakes.
WLock ==
    /\ wpc = "lock"
    /\ lockOwner = "none"
    /\ lockOwner' = "worker"
    /\ wpc' = "check"
    /\ UNCHANGED <<clientVars, inner, hpc, weng, nRequested, callbacks>>

\* A loop that forgets to consume the request it serves.
WCheck_NoConsume ==
    /\ wpc = "check"
    /\ IF inner.producer_done
       THEN /\ wpc' = "finish"
            /\ UNCHANGED <<inner, lockOwner>>
       ELSE IF inner.requests = 0
       THEN /\ wpc' = "wait"
            /\ lockOwner' = "none"
            /\ UNCHANGED inner
       ELSE /\ lockOwner' = "none"
            /\ wpc' = "acquire"
            /\ UNCHANGED inner
    /\ UNCHANGED <<clientVars, hpc, weng, nRequested, callbacks>>

\* A loop that calls f without dropping the guard first.
WCheck_HoldLock ==
    /\ wpc = "check"
    /\ IF inner.producer_done
       THEN /\ wpc' = "finish"
            /\ UNCHANGED <<inner, lockOwner>>
       ELSE IF inner.requests = 0
       THEN /\ wpc' = "wait"
            /\ lockOwner' = "none"
            /\ UNCHANGED inner
       ELSE /\ inner' = [inner EXCEPT !.requests = @ - 1]
            /\ UNCHANGED lockOwner
            /\ wpc' = "acquire"
    /\ UNCHANGED <<clientVars, hpc, weng, nRequested, callbacks>>

\* A loop that serves the requests still queued before it looks at
\* producer_done.
WCheck_DrainFirst ==
    /\ wpc = "check"
    /\ IF inner.requests > 0
       THEN /\ inner' = [inner EXCEPT !.requests = @ - 1]
            /\ lockOwner' = "none"
            /\ wpc' = "acquire"
       ELSE IF inner.producer_done
       THEN /\ wpc' = "finish"
            /\ UNCHANGED <<inner, lockOwner>>
       ELSE /\ wpc' = "wait"
            /\ lockOwner' = "none"
            /\ UNCHANGED inner
    /\ UNCHANGED <<clientVars, hpc, weng, nRequested, callbacks>>

\* for_each_request, one evaluation of the loop with the lock held: leave
\* when producer_done; park in cvar.wait (which releases the mutex) when
\* there is no request; else consume a request, unlock and call f.
WCheck ==
    /\ wpc = "check"
    /\ IF inner.producer_done
       THEN /\ wpc' = "finish"
            /\ UNCHANGED <<inner, lockOwner>>
       ELSE IF inner.requests = 0
       THEN /\ wpc' = "wait"
            /\ lockOwner' = "none"
            /\ UNCHANGED inner
       ELSE /\ inner' = [inner EXCEPT !.requests = @ - 1]
            /\ lockOwner' = "none"
            /\ wpc' = "acquire"
    /\ UNCHANGED <<clientVars, hpc, weng, nRequested, callbacks>>

\* Condvar::wait may return without a notification.
WSpuriousWake ==
    /\ wpc = "wait"
    /\ wpc' = "lock"
    /\ UNCHANGED <<clientVars, inner, lockOwner, hpc, weng, nRequested, callbacks>>

\* for_each_request after the loop: consumer_done = true, notify_one, the
\* guard is released; the worker thread ends and drops its Client.
WFinish ==
    /\ wpc = "finish"
    /\ inner' = [inner EXCEPT !.consumer_done = TRUE]
    /\ lockOwner' = "none"
    /\ wpc' = "exited"
    /\ ArcDrop(weng)
    /\ UNCHANGED <<extVars, limit, pool, ceng, acq, threadVars, rawVars, hpc, weng,
                   nRequested, callbacks>>

\* f, the worker's closure: client.acquire() returns a token and the user
\* callback is invoked with it.
WAcquire ==
    /\ wpc = "acquire"
    /\ EngineCanAcquire(pool[weng])
    /\ LET r == ClientAcquire(weng, pool[weng]) IN
        /\ pool' = [pool EXCEPT ![weng] = r.pool]
        /\ acq' = [acq EXCEPT ![NextTok] = r.ret]
        /\ ArcClone(weng)
    /\ callbacks' = callbacks + 1
    /\ wpc' = "callback"
    /\ UNCHANGED <<extVars, limit, ceng, threadVars, rawVars, inner, lockOwner, hpc, weng,
                   nRequested>>

\* The user callback returns; f returns and the loop locks again.
WCallbackReturn ==
    /\ wpc = "callback"
    /\ wpc' = "lock"
    /\ UNCHANGED <<clientVars, inner, lockOwner, hpc, weng, nRequested, callbacks>>

\* f, interrupted in acquire: it re-checks producer_done under the lock and
\* gives up when shutting down, else retries the acquire.
WInterrupted ==
    /\ wpc = "interrupted"
    /\ lockOwner = "none"
    /\ wpc' = IF inner.producer_done THEN "lock" ELSE "acquire"
    /\ UNCHANGED <<clientVars, inner, lockOwner, hpc, weng, nRequested, callbacks>>

(* ------------------- the helper thread specification ------------------- *)
\* The host thread (thread 1) may keep clones of the client, through which
\* it adds tokens to the pool while the helper runs; tokens handed to the
\* callback are dropped by whoever received them.
NextHelper ==
    \/ \E c \in ClientIds : Clone(c)
    \/ \E c \in ClientIds : IntoHelperThread(c)
    \/ RequestToken
    \/ RequestNotify
    \/ DropBegin
    \/ DropSetDone
    \/ DropNotify
    \/ Interrupt
    \/ JoinReturn
    \/ WLock
    \/ WCheck
    \/ WSpuriousWake
    \/ WFinish
    \/ WAcquire
    \/ WCallbackReturn
    \/ WInterrupted
    \/ \E c \in ClientIds : ReleaseRaw(1, c)
    \/ \E k \in TokenIds : DropAcquired(k)

\* Threads run: a step of the worker or of a call the host is in is taken
\* when it stays possible, and the mutex is granted to a thread that keeps
\* asking for it.  Nothing makes a token arrive, a request be made, a
\* HelperThread be dropped or a wait wake spuriously.
FairHelper ==
    /\ SF_vars(WLock)
    /\ WF_vars(WCheck)
    /\ WF_vars(WFinish)
    /\ WF_vars(WCallbackReturn)
    /\ SF_vars(WInterrupted)
    /\ WF_vars(RequestNotify)
    /\ SF_vars(DropSetDone)
    /\ WF_vars(DropNotify)
    /\ WF_vars(Interrupt)
    /\ WF_vars(JoinReturn)

SpecHelper == Init /\ [][NextHelper]_vars /\ FairHelper

(* ------------------- a callback that may panic ------------------------- *)
\* f(self) at the end of the loop body runs with the guard dropped, and
\* nothing in for_each_request catches an unwind: a panic of the user callback
\* leaves the mutex unpoisoned and unwinds the worker thread, which drops its
\* Client and ends without setting consumer_done.
WCallbackPanic ==
    /\ wpc = "callback"
    /\ wpc' = "panicked"
    /\ ArcDrop(weng)
    /\ UNCHANGED <<extVars, limit, pool, ceng, acq, threadVars, rawVars, inner, lockOwner,
                   hpc, weng, nRequested, callbacks>>

\* imp::Helper::join on a worker that ended by a panic: the join returns.
JoinPanicked ==
    /\ hpc = "join"
    /\ wpc = "panicked"
    /\ hpc' = "dropped"
    /\ UNCHANGED <<clientVars, inner, lockOwner, wpc, weng, nRequested, callbacks>>

NextPanic ==
    \/ NextHelper
    \/ WCallbackPanic
    \/ JoinPanicked

\* As FairHelper; a callback is not obliged to panic.
FairPanic ==
    /\ FairHelper
    /\ WF_vars(JoinPanicked)

SpecPanic == Init /\ [][NextPanic]_vars /\ FairPanic

(* --------------- scenario S1: bounded parallelism ---------------------- *)
\* Each thread calls acquire once on a client with limit >= 1, keeps the
\* token for a while and drops it.
InitS1 ==
    /\ \E n \in 1..MaxLimit : ClientNew(n)
    /\ CallersInit
    /\ HelperInit
    /\ env = NoEnv
    /\ ChildInit
    /\ ParseInit
    /\ ErrInit

\* Thread t, which has not acquired yet, calls acquire.
S1Acquire(t) ==
    /\ thold[t] = NoTok
    /\ \E c \in ClientIds : AcquireCall(t, c)

\* Thread t drops the token it holds.
S1Drop(t) ==
    /\ thold[t] # NoTok
    /\ DropAcquired(thold[t])

\* Thread t has acquired, held and dropped its token.
S1Done(t) ==
    /\ tpc[t] = "idle"
    /\ thold[t] # NoTok
    /\ acq[thold[t]].st = "dropped"

NextS1 ==
    \/ \E c \in ClientIds : Clone(c)
    \/ \E t \in Threads : S1Acquire(t)
    \/ \E t \in Threads : AcquireReturn(t, TRUE)
    \/ \E t \in Threads : S1Drop(t)

\* Every thread runs: its call is made, a read that can return does, and a
\* held token is dropped.
FairS1 ==
    \A t \in Threads :
        /\ WF_vars(S1Acquire(t))
        /\ WF_vars(AcquireReturn(t, TRUE))
        /\ WF_vars(S1Drop(t))

SpecS1 == InitS1 /\ [][NextS1]_vars /\ FairS1

(* ===================== properties of the client ======================== *)
\* Tokens dropped by drop_without_releasing: still held by the process.
Leaked == {k \in TokenIds : acq[k].st = "dropped" /\ acq[k].disabled}
\* Tokens taken from the pool and held: by an Acquired value, leaked by
\* drop_without_releasing, or taken by acquire_raw.
Held == Cardinality(LiveTokens) + Cardinality(Leaked) + nAcquireRaw
\* A thread's call returns in this step.
Returns(t, op) == tpc[t] = op /\ tpc'[t] = "idle"
\* An Acquired value is created in this step.
Created(k) == acq[k].st = "none" /\ acq'[k].st = "live"

\* C1: with only acquire, try_acquire and token drops (no release_raw), at
\* most `limit` tokens are held in every reachable state, and a thread inside
\* acquire while `limit` tokens are held does not return in that state.
C1_AtMostLimitHeld ==
    /\ [](nReleaseRaw = 0 => Held <= limit)
    /\ [][\A t \in Threads :
            (tpc[t] = "acquire" /\ nReleaseRaw = 0 /\ Held = limit)
                => tpc'[t] = "acquire"]_vars

\* C1 witness: `limit` tokens are held by Acquired values taken through two
\* handles and a thread is blocked in acquire.
C1_Witness ==
    /\ limit >= 1
    /\ nReleaseRaw = 0
    /\ Cardinality(LiveTokens) = limit
    /\ Cardinality(clients) >= 2
    /\ \E t \in Threads : tpc[t] = "acquire"

\* C2: every Acquired value performs exactly one engine release when it is
\* dropped, none if drop_without_releasing was called on it, never two; the
\* release puts one byte back, and a dropped value never acts again.
C2_OneReleasePerToken ==
    /\ [](\A k \in TokenIds :
            /\ acq[k].releases <= 1
            /\ acq[k].st \in {"none", "live"} => acq[k].releases = 0
            /\ acq[k].st = "dropped" =>
                 acq[k].releases = (IF acq[k].disabled THEN 0 ELSE 1))
    /\ [][\A k \in TokenIds :
            /\ (acq[k].st = "live" /\ acq'[k].st = "dropped") =>
                 Len(pool'[acq[k].client]) = Len(pool[acq[k].client])
                     + (IF acq'[k].disabled THEN 0 ELSE 1)
            /\ acq[k].st = "dropped" => acq'[k] = acq[k]]_vars

\* C2 witness: one token was dropped normally, another without releasing.
C2_Witness ==
    /\ \E k \in TokenIds : acq[k].st = "dropped" /\ ~acq[k].disabled /\ acq[k].releases = 1
    /\ \E k \in TokenIds : acq[k].st = "dropped" /\ acq[k].disabled /\ acq[k].releases = 0

\* The answers (TRUE: a token) of n consecutive try_acquire calls on engine e
\* whose pipe holds p.
RECURSIVE TryRun(_, _, _)
TryRun(e, p, n) ==
    IF n = 0 THEN <<>>
    ELSE LET r == ClientTryAcquire(e, p) IN
         <<r.ret # NoAcquired>> \o TryRun(e, r.pool, n - 1)

\* No call is in flight and every token taken from the pool was given back.
AllReleased ==
    /\ \A t \in Threads : tpc[t] = "idle"
    /\ LiveTokens = {}
    /\ nReleaseRaw >= Cardinality(Leaked) + nAcquireRaw

\* The first `limit` of limit+1 consecutive try_acquire calls return a token.
ExactlyLimitSucceed ==
    TryRun(1, pool[1], limit + 1) = [i \in 1..(limit + 1) |-> i <= limit]

\* C3 as stated: once every outstanding token has been released, `limit`
\* consecutive try_acquire calls succeed and the next returns none.
C3_Original == AllReleased => ExactlyLimitSucceed

\* C3 amended: the same, in states where release_raw was called exactly as
\* often as tokens were taken raw (acquire_raw, drop_without_releasing).
C3_LimitAfterRelease ==
    (AllReleased /\ nReleaseRaw = Cardinality(Leaked) + nAcquireRaw)
        => ExactlyLimitSucceed

\* C3 witness: tokens were acquired, dropped and paired raw, all given back.
C3_Witness ==
    /\ limit >= 1
    /\ AllReleased
    /\ clients # {}
    /\ nReleaseRaw = 1
    /\ nReleaseRaw = Cardinality(Leaked) + nAcquireRaw
    /\ \E k \in TokenIds : acq[k].st = "dropped" /\ acq[k].releases = 1

\* Scenario S2 on a limit-0 client: try_acquire none; release_raw;
\* try_acquire some; try_acquire none; drop the token; try_acquire some.
ScenarioS2 ==
    LET r1 == ClientTryAcquire(1, EngineNew(0))
        p1 == EngineRelease(r1.pool, NoData)
        r2 == ClientTryAcquire(1, p1)
        r3 == ClientTryAcquire(1, r2.pool)
        d  == AcquiredDrop(r2.ret, r3.pool)
        r4 == ClientTryAcquire(1, d.pool)
    IN  /\ r1.ret = NoAcquired
        /\ r2.ret # NoAcquired
        /\ r3.ret = NoAcquired
        /\ r4.ret # NoAcquired

\* C4: try_acquire never blocks; it returns a token, taking exactly one byte
\* from the pool, iff the pool is non-empty when it runs, and otherwise
\* returns none and changes nothing; scenario S2 comes out as stated.
C4_TryAcquireNonBlocking ==
    /\ [](\A t \in Threads : tpc[t] = "try_acquire" => ENABLED TryAcquireReturn(t))
    /\ [][\A t \in Threads : Returns(t, "try_acquire") =>
            LET e == teng[t] IN
            IF pool[e] # <<>>
            THEN /\ pool'[e] = Tail(pool[e])
                 /\ \E k \in TokenIds :
                      /\ Created(k)
                      /\ acq'[k].data = Head(pool[e])
                      /\ \A j \in TokenIds \ {k} : acq'[j] = acq[j]
            ELSE /\ pool' = pool
                 /\ acq' = acq]_vars
    /\ []ScenarioS2

\* C4 witness: the end of scenario S2 on a limit-0 client.
C4_Witness ==
    /\ limit = 0
    /\ nReleaseRaw = 1
    /\ pool[1] = <<>>
    /\ \A t \in Threads : tpc[t] = "idle"
    /\ \E k \in TokenIds : acq[k].st = "dropped" /\ acq[k].releases = 1
    /\ \E k \in TokenIds : acq[k].st = "live" /\ acq[k].data = PlusByte

\* C5: when every thread acquires once on a client with limit >= 1 and every
\* holder drops its token, every acquire returns and all threads complete.
C5_AllThreadsComplete == <>(\A t \in Threads : S1Done(t))

\* C5 witness: all threads completed on a limit-1 client, one at a time.
C5_Witness ==
    /\ limit = 1
    /\ \A t \in Threads : S1Done(t)

\* C6: all live handles point to one engine; a step that creates or drops a
\* handle acquires nothing, releases nothing and leaves every pool as it
\* was; a token taken through one handle is gone for every handle.
C6_ClonesShareOnePool ==
    /\ [](\A c, d \in clients : ceng[c] = ceng[d])
    /\ [][ceng' # ceng =>
            /\ pool' = pool
            /\ acq' = acq
            /\ nAcquireRaw' = nAcquireRaw
            /\ nReleaseRaw' = nReleaseRaw]_vars
    /\ [][\A k \in TokenIds : Created(k) =>
            \A c \in clients : Len(pool'[ceng[c]]) = Len(pool[ceng[c]]) - 1]_vars

\* C6 witness: two handles exist and a token taken through one is held.
C6_Witness ==
    /\ Cardinality(clients) >= 2
    /\ LiveTokens # {}
    /\ Len(pool[1]) < limit

(* ================== properties of the helper thread ==================== *)
\* HelperThread::drop has been entered and has not returned.
Dropping == hpc \in {"drop_lock", "drop_notify", "join"}
\* The worker is inside the acquire of a request it consumed.
InAcquire == wpc \in {"acquire", "interrupted"}

\* C7: once HelperThread::drop has returned, the user callback is never
\* invoked again.
C7_NoCallbackAfterDrop == [][hpc = "dropped" => callbacks' = callbacks]_vars

\* C7 witness: drop returned after requests were made, one was served by a
\* callback and another was still pending when the helper was dropped.
C7_Witness ==
    /\ hpc = "dropped"
    /\ callbacks >= 1
    /\ nRequested > callbacks

\* C8: HelperThread::drop, once entered, returns: the worker, wherever it
\* is, leaves its loop and sets consumer_done, with no request pending and
\* no token arriving.
C8_DropTerminates ==
    /\ Dropping ~> hpc = "dropped"
    /\ [](hpc = "dropped" => inner.producer_done /\ inner.consumer_done /\ wpc = "exited")

\* C8 witness: drop returned although the worker had consumed a request and
\* was blocked in acquire on a pool that never held a token.
C8_Witness ==
    /\ hpc = "dropped"
    /\ limit = 0
    /\ nReleaseRaw = 0
    /\ nRequested >= 1
    /\ inner.requests < nRequested
    /\ callbacks = 0

\* C9: the callback runs only as the completion of an acquire that the
\* worker began by consuming a request: callbacks never outnumber
\* request_token calls, and every request made is either still queued, being
\* acquired for, or accounts for at most one callback.
C9_CallbackOnlyAfterRequest ==
    /\ [](callbacks <= nRequested)
    /\ [](inner.requests + (IF InAcquire THEN 1 ELSE 0) + callbacks <= nRequested)
    /\ [][callbacks' # callbacks =>
            /\ callbacks' = callbacks + 1
            /\ wpc = "acquire" /\ wpc' = "callback"
            /\ \E k \in TokenIds : Created(k)]_vars
    /\ [][(~InAcquire /\ InAcquire') =>
            (inner.requests > 0 /\ inner'.requests = inner.requests - 1)]_vars

\* C9 witness: every request made was served by a callback.
C9_Witness ==
    /\ nRequested = MaxRequests
    /\ callbacks = nRequested

\* C10: if every acquire of the worker eventually gets a token, then every
\* request_token call is followed by a callback for it, unless the
\* HelperThread is dropped first; a request made while the worker is parked
\* wakes it.
C10_RequestLeadsToCallback ==
    (wpc = "acquire" ~> wpc # "acquire")
        => \A n \in 1..MaxRequests :
              (nRequested >= n) ~> (callbacks >= n \/ Dropping \/ hpc = "dropped")

\* C10 witness: after one request was served, a second one is made while
\* the worker is parked on the condition variable.
C10_Witness ==
    /\ wpc = "wait"
    /\ hpc = "req_notify"
    /\ callbacks = 1
    /\ nRequested = 2

\* The worker thread is inside the loop of for_each_request.
WorkerInLoop ==
    wpc \in {"lock", "check", "wait", "acquire", "interrupted", "callback"}

\* C11: a panic of the user callback does not disable the helper: while the
\* HelperThread is in use its worker stays in its loop; if every acquire of
\* the worker eventually gets a token, every request_token call, also one
\* made after the panic, is followed by a callback (unless the HelperThread
\* is dropped first); and HelperThread::drop still returns.
C11_ServedAfterPanic ==
    /\ [](hpc \in {"ready", "req_notify"} => WorkerInLoop)
    /\ (wpc = "acquire" ~> wpc # "acquire")
          => \A n \in 1..MaxRequests :
                (nRequested >= n) ~> (callbacks >= n \/ Dropping \/ hpc = "dropped")
    /\ Dropping ~> hpc = "dropped"

(* ==================== find_jobserver_auth, on its own ================== *)
\* The pieces the arguments are put together from: the two flags, a flag
\* without its `=`, and single characters.
Chunks ==
    {AuthFlag, FdsFlag, SubSeq(AuthFlag, 1, Len(AuthFlag) - 1),
     <<" ">>, <<"3">>, <<"=">>, <<"-">>}

\* The texts made of at most n pieces.
RECURSIVE Texts(_)
Texts(n) ==
    IF n = 0 THEN {<<>>}
    ELSE LET T == Texts(n - 1) IN T \cup {t \o c : t \in T, c \in Chunks}

InitParse ==
    /\ ClientNew(0)
    /\ CallersInit
    /\ HelperInit
    /\ env = NoEnv
    /\ ChildInit
    /\ var \in Texts(MaxChunks)
    /\ found = NotCalled
    /\ ErrInit

\* A call find_jobserver_auth(var).
FindCall ==
    /\ ~found.called
    /\ found' = [called |-> TRUE, ret |-> FindJobserverAuth(var)]
    /\ UNCHANGED <<coreVars, helperVars, envVars, errVars, var>>

NextParse == FindCall

SpecParse == InitParse /\ [][NextParse]_vars

\* The positions at which pat occurs in v.
Occ(v, pat) == {i \in 1..Len(v) : IsAt(v, pat, i)}
Last(S) == CHOOSE i \in S : \A j \in S : j <= i
\* The position of the first space of v at or after position i, or the
\* position after the end of v.
SpaceFrom(v, i) ==
    LET S == {j \in i..Len(v) : v[j] = " "} IN
    IF S = {} THEN Len(v) + 1 ELSE CHOOSE j \in S : \A k \in S : j <= k
\* The argument of the flag pat that occurs in v at position i.
ArgAt(v, pat, i) == SubSeq(v, i + Len(pat), SpaceFrom(v, i + Len(pat)) - 1)

\* The table of test::test_find_jobserver_auth: <<input, expected>>.
TestCases ==
    {
      <<<<>>,
        None>>,
      <<<<"-", "j", "2">>,
        None>>,
      <<<<"-", "j", "2", " ", "-", "-", "j", "o", "b", "s", "e", "r", "v", "e", "r", "-", "a", "u", "t", "h", "=", "3", ",", "4">>,
        Some(<<"3", ",", "4">>)>>,
      <<<<"-", "-", "j", "o", "b", "s", "e", "r", "v", "e", "r", "-", "a", "u", "t", "h", "=", "3", ",", "4", " ", "-", "j", "2">>,
        Some(<<"3", ",", "4">>)>>,
      <<<<"-", "-", "j", "o", "b", "s", "e", "r", "v", "e", "r", "-", "a", "u", "t", "h", "=", "3", ",", "4">>,
        Some(<<"3", ",", "4">>)>>,
      <<<<"-", "-", "j", "o", "b", "s", "e", "r", "v", "e", "r", "-", "a", "u", "t", "h", "=", "f", "i", "f", "o", ":", "/", "m", "y", "f", "i", "f", "o">>,
        Some(<<"f", "i", "f", "o", ":", "/", "m", "y", "f", "i", "f", "o">>)>>,
      <<<<"-", "-", "j", "o", "b", "s", "e", "r", "v", "e", "r", "-", "a", "u", "t", "h", "=">>,
        Some(<<>>)>>,
      <<<<"-", "-", "j", "o", "b", "s", "e", "r", "v", "e", "r", "-", "a", "u", "t", "h">>,
        None>>,
      <<<<"-", "-", "j", "o", "b", "s", "e", "r", "v", "e", "r", "-", "f", "d", "s", "=", "3", ",", "4">>,
        Some(<<"3", ",", "4">>)>>,
      <<<<"-", "-", "j", "o", "b", "s", "e", "r", "v", "e", "r", "-", "f", "d", "s", "=", "f", "i", "f", "o", ":", "/", "m", "y", "f", "i", "f", "o">>,
        Some(<<"f", "i", "f", "o", ":", "/", "m", "y", "f", "i", "f", "o">>)>>,
      <<<<"-", "-", "j", "o", "b", "s", "e", "r", "v", "e", "r", "-", "f", "d", "s", "=">>,
        Some(<<>>)>>,
      <<<<"-", "-", "j", "o", "b", "s", "e", "r", "v", "e", "r", "-", "f", "d", "s">>,
        None>>,
      <<<<"-", "-", "j", "o", "b", "s", "e", "r", "v", "e", "r", "-", "a", "u", "t", "h", "=", "a", "u", "t", "h", "-", "a", " ", "-", "-", "j", "o", "b", "s", "e", "r", "v", "e", "r", "-", "a", "u", "t", "h", "=", "a", "u", "t", "h", "-", "b">>,
        Some(<<"a", "u", "t", "h", "-", "b">>)>>,
      <<<<"-", "-", "j", "o", "b", "s", "e", "r", "v", "e", "r", "-", "a", "u", "t", "h", "=", "a", "u", "t", "h", "-", "b", " ", "-", "-", "j", "o", "b", "s", "e", "r", "v", "e", "r", "-", "a", "u", "t", "h", "=", "a", "u", "t", "h", "-", "a">>,
        Some(<<"a", "u", "t", "h", "-", "a">>)>>,
      <<<<"-", "-", "j", "o", "b", "s", "e", "r", "v", "e", "r", "-", "f", "d", "s", "=", "f", "d", "s", "-", "a", " ", "-", "-", "j", "o", "b", "s", "e", "r", "v", "e", "r", "-", "f", "d", "s", "=", "f", "d", "s", "-", "b">>,
        Some(<<"f", "d", "s", "-", "b">>)>>,
      <<<<"-", "-", "j", "o", "b", "s", "e", "r", "v", "e", "r", "-", "f", "d", "s", "=", "f", "d", "s", "-", "b", " ", "-", "-", "j", "o", "b", "s", "e", "r", "v", "e", "r", "-", "f", "d", "s", "=", "f", "d", "s", "-", "a">>,
        Some(<<"f", "d", "s", "-", "a">>)>>,
      <<<<"-", "-", "j", "o", "b", "s", "e", "r", "v", "e", "r", "-", "a", "u", "t", "h", "=", "a", "u", "t", "h", "-", "a", " ", "-", "-", "j", "o", "b", "s", "e", "r", "v", "e", "r", "-", "f", "d", "s", "=", "f", "d", "s", "-", "a", " ", "-", "-", "j", "o", "b", "s", "e", "r", "v", "e", "r", "-", "a", "u", "t", "h", "=", "a", "u", "t", "h", "-", "b">>,
        Some(<<"a", "u", "t", "h", "-", "b">>)>>,
      <<<<"-", "-", "j", "o", "b", "s", "e", "r", "v", "e", "r", "-", "f", "d", "s", "=", "f", "d", "s", "-", "a", " ", "-", "-", "j", "o", "b", "s", "e", "r", "v", "e", "r", "-", "a", "u", "t", "h", "=", "a", "u", "t", "h", "-", "a", " ", "-", "-", "j", "o", "b", "s", "e", "r", "v", "e", "r", "-", "f", "d", "s", "=", "f", "d", "s", "-", "b">>,
        Some(<<"a", "u", "t", "h", "-", "a">>)>>
    }

\* test::test_find_jobserver_auth passes.
TestFindJobserverAuth == \A c \in TestCases : FindJobserverAuth(c[1]) = c[2]

\* C13: find_jobserver_auth returns the argument of the last
\* `--jobserver-auth=` of the value; if there is none, the argument of the
\* last `--jobserver-fds=`; and None exactly when neither occurs.  The
\* table of the unit test comes out as expected.
C13_LastAuthElseLastFds ==
    /\ found.called =>
          IF Occ(var, AuthFlag) # {}
          THEN found.ret = Some(ArgAt(var, AuthFlag, Last(Occ(var, AuthFlag))))
          ELSE IF Occ(var, FdsFlag) # {}
          THEN found.ret = Some(ArgAt(var, FdsFlag, Last(Occ(var, FdsFlag))))
          ELSE found.ret = None
    /\ TestFindJobserverAuth

\* C13 witness: a value in which `--jobserver-fds=` comes after a
\* `--jobserver-auth=`, whose argument is returned.
C13_Witness ==
    /\ found.called
    /\ var = AuthFlag \o <<"3", " ">> \o FdsFlag
    /\ found.ret = Some(<<"3">>)

\* The space-separated tokens of s, in order.
RECURSIVE Tokens(_)
Tokens(s) ==
    LET h == SplitNext(s) IN
    IF Len(h) = Len(s) THEN <<h>>
    ELSE <<h>> \o Tokens(SubSeq(s, Len(h) + 2, Len(s)))

\* The argument of the last token of v that begins with pat, if any.
LastTokenArg(v, pat) ==
    LET toks == Tokens(v)
        S == {i \in 1..Len(toks) : IsAt(toks[i], pat, 1)} IN
    IF S = {} THEN None
    ELSE Some(SubSeq(toks[Last(S)], Len(pat) + 1, Len(toks[Last(S)])))

\* The flags read as space-separated tokens of the value.
TokenFind(v) == FindMap2(LastTokenArg(v, AuthFlag), LastTokenArg(v, FdsFlag))

\* The value returned is the text that follows some occurrence of a flag,
\* up to and not including the next space or the end of the value.
ValueUpToSpace ==
    found.ret.some =>
        \E pat \in {AuthFlag, FdsFlag} : \E i \in Occ(var, pat) :
            LET st == i + Len(pat)
                val == found.ret.val IN
            /\ st + Len(val) - 1 <= Len(var)
            /\ val = SubSeq(var, st, st + Len(val) - 1)
            /\ \A j \in 1..Len(val) : val[j] # " "
            /\ st + Len(val) = Len(var) + 1 \/ var[st + Len(val)] = " "

\* C14: the value runs from after the `=` of the selected flag to the next
\* space or the end of the value, possibly empty, and the flags are
\* recognised as space-separated tokens of the value.
C14_FlagsAreTokens ==
    found.called => (ValueUpToSpace /\ found.ret = TokenFind(var))

(* ================= from_env_ext, configure and a child ================= *)
\* imp::Client::string_arg: "<R>,<W>" of the pipe the engine owns.
StringArg(e) == IF e = 1 THEN <<"3", ",", "4">> ELSE <<"5", ",", "6">>

Digits == {"0", "1", "2", "3", "4", "5", "6", "7", "8", "9"}
\* s is two decimal integers separated by a comma.
IsFdPair(s) ==
    \E k \in 2..(Len(s) - 1) :
        /\ s[k] = ","
        /\ \A j \in (1..Len(s)) \ {k} : s[j] \in Digits

\* Result<Client, FromEnvError>, by the engine behind the Client.
Ok(e) == [ok |-> TRUE, engine |-> e, err |-> "none"]
Err(kind) == [ok |-> FALSE, engine |-> NoEngine, err |-> kind]

\* imp::Client::open(s, check_pipe) in a process that was handed the
\* descriptors of the engines in inh: a FIFO path that does not exist cannot
\* be opened, text that is not a descriptor pair cannot be parsed, the
\* descriptors must be open in this process, and they are then pipes.
EngineOpen(s, check_pipe, inh) ==
    IF IsAt(s, <<"f", "i", "f", "o", ":">>, 1) THEN Err("CannotOpenPath")
    ELSE IF ~IsFdPair(s) THEN Err("CannotParse")
    ELSE IF \E e \in inh : StringArg(e) = s
    THEN Ok(CHOOSE e \in inh : StringArg(e) = s)
    ELSE Err("CannotOpenFd")

\* FromEnv::new_ok
NewOk(client, var_name, var_value) ==
    [client |-> Ok(client), var |-> Some(<<var_name, var_value>>)]

\* A buggy new_err that leaves the variable out.
NewErr_NoVar(kind, var_name, var_value) ==
    [client |-> Err(kind), var |-> None]

\* FromEnv::new_err
NewErr(kind, var_name, var_value) ==
    [client |-> Err(kind), var |-> Some(<<var_name, var_value>>)]

\* A buggy selection in which the last variable present wins.
RECURSIVE FirstPresent_LastWins(_, _)
FirstPresent_LastWins(envf, i) ==
    LET j == Len(EnvNames) + 1 - i IN
    IF i > Len(EnvNames) THEN None
    ELSE IF envf[EnvNames[j]].some
    THEN Some(<<EnvNames[j], envf[EnvNames[j]].val>>)
    ELSE FirstPresent_LastWins(envf, i + 1)

\* [..].iter().map(|&env| env::var_os(env).map(|var| (env, var)))
\*     .find_map(|p| p), from the i-th name on.
RECURSIVE FirstPresent(_, _)
FirstPresent(envf, i) ==
    IF i > Len(EnvNames) THEN None
    ELSE IF envf[EnvNames[i]].some
    THEN Some(<<EnvNames[i], envf[EnvNames[i]].val>>)
    ELSE FirstPresent(envf, i + 1)

\* A buggy from_env_ext that reports every failure as CannotParse.
FromEnvExt_AllCannotParse(envf, check_pipe, inh) ==
    LET p == FirstPresent(envf, 1) IN
    IF ~p.some
    THEN [ret |-> NewErr("NoEnvVar", "", <<>>), opens |-> 0]
    ELSE
    LET name == p.val[1]
        var_os == p.val[2]
        v == ToStr(var_os) IN
    IF ~v.some
    THEN [ret |-> NewErr("CannotParse", name, var_os), opens |-> 0]
    ELSE
    LET s == FindJobserverAuth(v.val) IN
    IF ~s.some
    THEN [ret |-> NewErr("CannotParse", name, var_os), opens |-> 0]
    ELSE
    LET c == EngineOpen(s.val, check_pipe, inh) IN
    [ret   |-> IF c.ok THEN NewOk(c.engine, name, var_os)
                       ELSE NewErr("CannotParse", name, var_os),
     opens |-> 1]

\* Client::from_env_ext(check_pipe) in a process whose environment is envf;
\* `opens` counts the calls of imp::Client::open it made.
FromEnvExt(envf, check_pipe, inh) ==
    LET p == FirstPresent(envf, 1) IN
    IF ~p.some
    THEN [ret |-> NewErr("NoEnvVar", "", <<>>), opens |-> 0]
    ELSE
    LET name == p.val[1]
        var_os == p.val[2]
        v == ToStr(var_os) IN
    IF ~v.some
    THEN [ret |-> NewErr("CannotParse", name, var_os), opens |-> 0]
    ELSE
    LET s == FindJobserverAuth(v.val) IN
    IF ~s.some
    THEN [ret |-> NewErr("NoJobserver", name, var_os), opens |-> 0]
    ELSE
    LET c == EngineOpen(s.val, check_pipe, inh) IN
    [ret   |-> IF c.ok THEN NewOk(c.engine, name, var_os)
                       ELSE NewErr(c.err, name, var_os),
     opens |-> 1]

\* A buggy mflags_env that separates flag and value by a space.
MflagsEnv_SpaceForEquals(e) ==
    <<"-", "j", " ", "-", "-", "j", "o", "b", "s", "e", "r", "v", "e", "r", "-", "f", "d", "s", " ">> \o StringArg(e)
        \o <<" ", "-", "-", "j", "o", "b", "s", "e", "r", "v", "e", "r", "-", "a", "u", "t", "h", " ">> \o StringArg(e)

\* Client::mflags_env:
\* format!("-j --jobserver-fds={0} --jobserver-auth={0}", arg)
MflagsEnv(e) ==
    <<"-", "j", " ", "-", "-", "j", "o", "b", "s", "e", "r", "v", "e", "r", "-", "f", "d", "s", "=">> \o StringArg(e)
        \o <<" ", "-", "-", "j", "o", "b", "s", "e", "r", "v", "e", "r", "-", "a", "u", "t", "h", "=">> \o StringArg(e)

\* Command::env(name, value)
CmdEnv(cmd, name, value) == [cmd EXCEPT ![name] = Some(value)]

\* imp::Client::configure(cmd): the child launch carries the descriptors.
EngineConfigure(e) == inherit' = inherit \cup {e}

\* A buggy configure that sets MAKEFLAGS instead of CARGO_MAKEFLAGS.
Configure_Makeflags(c) ==
    /\ c \in clients
    /\ ~childEnv.some
    /\ cmdEnv' = CmdEnv(cmdEnv, "MAKEFLAGS", MflagsEnv(ceng[c]))
    /\ EngineConfigure(ceng[c])
    /\ UNCHANGED <<coreVars, helperVars, parseVars, errVars, env, childEnv, fromEnv, nOpen,
                   childTok, childDone>>

\* Client::configure(&self, cmd), on a Command not launched yet.
Configure(c) ==
    /\ c \in clients
    /\ ~childEnv.some
    /\ cmdEnv' = CmdEnv(cmdEnv, "CARGO_MAKEFLAGS", MflagsEnv(ceng[c]))
    /\ EngineConfigure(ceng[c])
    /\ UNCHANGED <<coreVars, helperVars, parseVars, errVars, env, childEnv, fromEnv, nOpen,
                   childTok, childDone>>

\* Client::configure_make(&self, cmd)
ConfigureMake(c) ==
    /\ c \in clients
    /\ ~childEnv.some
    /\ LET value == MflagsEnv(ceng[c]) IN
       cmdEnv' = CmdEnv(CmdEnv(CmdEnv(cmdEnv, "CARGO_MAKEFLAGS", value),
                               "MAKEFLAGS", value),
                        "MFLAGS", value)
    /\ EngineConfigure(ceng[c])
    /\ UNCHANGED <<coreVars, helperVars, parseVars, errVars, env, childEnv, fromEnv, nOpen,
                   childTok, childDone>>

\* The Command is launched: the child inherits the environment of this
\* process, with the variables set on the Command put over it.
Spawn ==
    /\ ~childEnv.some
    /\ childEnv' = Some([n \in EnvNameSet |->
                           IF cmdEnv[n].some THEN cmdEnv[n] ELSE env[n]])
    /\ UNCHANGED <<coreVars, helperVars, parseVars, errVars, env, cmdEnv, inherit, fromEnv,
                   nOpen, childTok, childDone>>

\* The child calls Client::from_env_ext(check_pipe).
ChildFromEnvExt(check_pipe) ==
    /\ childEnv.some
    /\ ~fromEnv.called
    /\ LET r == FromEnvExt(childEnv.val, check_pipe, inherit) IN
        /\ fromEnv' = [called |-> TRUE, ret |-> r.ret]
        /\ nOpen' = nOpen + r.opens
    /\ UNCHANGED <<coreVars, helperVars, parseVars, errVars, env, cmdEnv, inherit, childEnv,
                   childTok, childDone>>

\* The engine of the Client the child obtained.
ChildEngine == fromEnv.ret.client.engine

\* The child acquires a token on the Client it obtained.
ChildAcquire ==
    /\ fromEnv.called
    /\ fromEnv.ret.client.ok
    /\ childTok = NoData
    /\ ~childDone
    /\ EngineCanAcquire(pool[ChildEngine])
    /\ LET r == ClientAcquire(ChildEngine, pool[ChildEngine]) IN
        /\ pool' = [pool EXCEPT ![ChildEngine] = r.pool]
        /\ childTok' = r.ret.data
    /\ UNCHANGED <<limit, strong, closed, ceng, acq, threadVars, rawVars,
                   helperVars, parseVars, errVars, env, cmdEnv, inherit, childEnv, fromEnv,
                   nOpen, childDone>>

\* The child drops the token it holds.
ChildDrop ==
    /\ childTok # NoData
    /\ LET r == AcquiredDrop(NewAcquired(ChildEngine, childTok), pool[ChildEngine]) IN
        pool' = [pool EXCEPT ![ChildEngine] = r.pool]
    /\ childTok' = NoData
    /\ childDone' = TRUE
    /\ UNCHANGED <<limit, strong, closed, ceng, acq, threadVars, rawVars,
                   helperVars, parseVars, errVars, env, cmdEnv, inherit, childEnv, fromEnv,
                   nOpen>>

\* Values a variable of the inherited environment may have: the flags of
\* this jobserver in the old form, no jobserver flag, descriptors that are
\* not open, an empty argument, bytes that are not UTF-8, and no text.
EnvVals ==
    {FdsFlag \o StringArg(1),
     <<"-", "j", "2">>,
     AuthFlag \o <<"9", ",", "9">>,
     <<"-", "j", " ">> \o AuthFlag,
     AuthFlag \o StringArg(1) \o <<BadByte>>,
     <<>>}

\* This process has made a Client; its environment is any.
InitEnv ==
    /\ \E n \in 0..MaxLimit : ClientNew(n)
    /\ CallersInit
    /\ HelperInit
    /\ env \in [EnvNameSet -> {None} \cup {Some(v) : v \in EnvVals}]
    /\ ChildInit
    /\ ParseInit
    /\ ErrInit

NextEnv ==
    \/ \E c \in ClientIds : Configure(c)
    \/ \E c \in ClientIds : ConfigureMake(c)
    \/ Spawn
    \/ \E check_pipe \in BOOLEAN : ChildFromEnvExt(check_pipe)
    \/ ChildAcquire
    \/ ChildDrop

SpecEnv == InitEnv /\ [][NextEnv]_vars

(* ====================== properties of from_env_ext ===================== *)
\* The FromEnv the child got.
Got == fromEnv.ret
\* The positions in EnvNames of the variables present in the child.
PresentIdx == {i \in 1..Len(EnvNames) : childEnv.val[EnvNames[i]].some}
\* The first variable present, in the order of EnvNames, and its value.
Chosen == EnvNames[CHOOSE i \in PresentIdx : \A j \in PresentIdx : i <= j]
ChosenValue == childEnv.val[Chosen].val
\* The environment of the child without the variables other than Chosen.
OnlyChosen == [n \in EnvNameSet |-> IF n = Chosen THEN childEnv.val[n] ELSE None]
\* A value that holds a jobserver flag this process could parse.
HoldsJobserver(v) == ToStr(v).some /\ FindJobserverAuth(v).some

\* C12: the name reported is that of the first variable present in the order
\* CARGO_MAKEFLAGS, MAKEFLAGS, MFLAGS, and the client or error returned is
\* what that variable alone gives: the later variables are not consulted,
\* whatever they hold.
C12_FirstPresentOnly ==
    (fromEnv.called /\ PresentIdx # {}) =>
        /\ Got.var.some
        /\ Got.var.val[1] = Chosen
        /\ \A b \in BOOLEAN : Got.client = FromEnvExt(OnlyChosen, b, inherit).ret.client
        /\ ~HoldsJobserver(ChosenValue) => ~Got.client.ok

\* C12 witness: CARGO_MAKEFLAGS holds no jobserver flag, MAKEFLAGS holds one;
\* NoJobserver is returned for CARGO_MAKEFLAGS.
C12_Witness ==
    /\ fromEnv.called
    /\ childEnv.val["CARGO_MAKEFLAGS"] = Some(<<"-", "j", "2">>)
    /\ childEnv.val["MAKEFLAGS"] = Some(FdsFlag \o StringArg(1))
    /\ Got.client = Err("NoJobserver")
    /\ Got.var.val[1] = "CARGO_MAKEFLAGS"

\* C15: whenever one of the variables is present, FromEnv.var holds the name
\* of the chosen variable and its value as it is in the environment, be the
\* result a client, CannotParse, NoJobserver or an error of the engine.
C15_VarAlwaysReported ==
    (fromEnv.called /\ PresentIdx # {}) =>
        Got.var = Some(<<Chosen, ChosenValue>>)

\* C15 witness: the value is not valid UTF-8; CannotParse is returned and
\* the value is reported with its invalid bytes.
C15_Witness ==
    /\ fromEnv.called
    /\ Got.client = Err("CannotParse")
    /\ Got.var.some
    /\ Got.var.val[1] = "MAKEFLAGS"
    /\ \E i \in 1..Len(Got.var.val[2]) : Got.var.val[2][i] = BadByte

\* C16: when none of the three variables is present, the error is NoEnvVar
\* and FromEnv.var is None.
C16_NoEnvVarReportsNone ==
    (fromEnv.called /\ PresentIdx = {}) =>
        /\ Got.client = Err("NoEnvVar")
        /\ Got.var = None

\* The value is valid UTF-8.
IsUtf8(v) == \A i \in 1..Len(v) : v[i] # BadByte
\* One of the two flags occurs in the value.
HasFlag(v) == Occ(v, AuthFlag) \cup Occ(v, FdsFlag) # {}

\* C17: a chosen value that is not valid UTF-8 gives CannotParse, a valid
\* one without `--jobserver-auth=` or `--jobserver-fds=` gives NoJobserver,
\* and in both cases (as when no variable is present) the engine is not
\* opened; otherwise the engine is opened once on the argument found and
\* its client or its error is the result.
C17_FailureByStage ==
    fromEnv.called =>
        IF PresentIdx = {} THEN nOpen = 0
        ELSE IF ~IsUtf8(ChosenValue)
        THEN Got.client = Err("CannotParse") /\ nOpen = 0
        ELSE IF ~HasFlag(ChosenValue)
        THEN Got.client = Err("NoJobserver") /\ nOpen = 0
        ELSE /\ nOpen = 1
             /\ \A b \in BOOLEAN :
                  Got.client = EngineOpen(FindJobserverAuth(ChosenValue).val, b, inherit)

\* C17 witness: the descriptors named are not open in the child; the error
\* of the engine is returned after one open.
C17_Witness ==
    /\ fromEnv.called
    /\ nOpen = 1
    /\ Got.client = Err("CannotOpenFd")
    /\ ChosenValue = AuthFlag \o <<"9", ",", "9">>

(* ================= properties of configure and the child =============== *)
\* C18: a child launched after configure (or configure_make) gets from
\* from_env_ext a client, with var.0 = "CARGO_MAKEFLAGS" and an auth string
\* equal to the string_arg of the configuring client, whatever MAKEFLAGS and
\* MFLAGS and CARGO_MAKEFLAGS it would have inherited; the client is on the
\* pool of the parent: the child's acquire takes one byte of it, its release
\* gives one back, and afterwards the pool holds as many as before.
C18_RoundTrip ==
    /\ []((inherit # {} /\ fromEnv.called) =>
            /\ Got.client = Ok(ceng[1])
            /\ Got.var.val[1] = "CARGO_MAKEFLAGS"
            /\ FindJobserverAuth(ToStr(Got.var.val[2]).val) = Some(StringArg(ceng[1])))
    /\ [][(childTok = NoData /\ childTok' # NoData) =>
            Len(pool'[ceng[1]]) = Len(pool[ceng[1]]) - 1]_vars
    /\ [][(childTok # NoData /\ childTok' = NoData) =>
            Len(pool'[ceng[1]]) = Len(pool[ceng[1]]) + 1]_vars
    /\ [](childDone => Len(pool[ceng[1]]) = limit)

\* C18 witness: the environment carried all three variables, none of them
\* of this jobserver; after configure the child connected, acquired a token
\* and released it.
C18_Witness ==
    /\ childDone
    /\ limit >= 1
    /\ env["CARGO_MAKEFLAGS"] = Some(<<"-", "j", "2">>)
    /\ env["MAKEFLAGS"] = Some(AuthFlag \o <<"9", ",", "9">>)
    /\ env["MFLAGS"] = Some(<<>>)
    /\ ~cmdEnv["MAKEFLAGS"].some
    /\ Got.client.ok

\* The value configure sets for a client whose string_arg is "3,4".
ExpectedMflags ==
    <<"-", "j", " ", "-", "-", "j", "o", "b", "s", "e", "r", "v", "e", "r", "-", "f", "d", "s", "=", "3", ",", "4", " ", "-", "-", "j", "o", "b", "s", "e", "r", "v", "e", "r", "-", "a", "u", "t", "h", "=", "3", ",", "4">>

\* C19: configure sets CARGO_MAKEFLAGS alone on the Command, so the child
\* keeps the MAKEFLAGS and MFLAGS it inherits; configure_make sets all three;
\* the value is `-j --jobserver-fds=<A> --jobserver-auth=<A>` with the
\* string_arg for <A>; neither touches the pool or a token.
C19_ConfigureSetsFlags ==
    /\ [][\A c \in ClientIds : Configure(c) =>
            /\ cmdEnv' = [cmdEnv EXCEPT !["CARGO_MAKEFLAGS"] = Some(ExpectedMflags)]
            /\ pool' = pool /\ acq' = acq]_vars
    /\ [][\A c \in ClientIds : ConfigureMake(c) =>
            /\ cmdEnv' = [n \in EnvNameSet |-> Some(ExpectedMflags)]
            /\ pool' = pool /\ acq' = acq]_vars
    /\ [](\A n \in EnvNameSet :
            cmdEnv[n].some =>
               cmdEnv[n].val = <<"-", "j", " ">> \o FdsFlag \o StringArg(ceng[1])
                                 \o <<" ">> \o AuthFlag \o StringArg(ceng[1]))
    /\ [](childEnv.some =>
            \A n \in {"MAKEFLAGS", "MFLAGS"} :
                ~cmdEnv[n].some => childEnv.val[n] = env[n])

\* C19 witness: after configure alone the child is launched and has
\* CARGO_MAKEFLAGS from the Command and MAKEFLAGS as inherited.
C19_Witness ==
    /\ childEnv.some
    /\ cmdEnv["CARGO_MAKEFLAGS"] = Some(ExpectedMflags)
    /\ ~cmdEnv["MAKEFLAGS"].some
    /\ ~cmdEnv["MFLAGS"].some
    /\ childEnv.val["CARGO_MAKEFLAGS"] = Some(ExpectedMflags)
    /\ childEnv.val["MAKEFLAGS"] = Some(<<"-", "j", "2">>)

(* ===================== I/O errors of the engine ======================== *)
\* The errors a read or a write of the engine may fail with.
IoErrors == {"EIO", "EBADF"}

\* The engine returns the error `kind` from the call being made.
EngineFails(kind) ==
    /\ nEngErr < MaxErrs
    /\ nEngErr' = nEngErr + 1
    /\ lastErr' = kind

\* The caller, or the callback, is handed the error `err`.
Seen(who, err) ==
    /\ nSeen' = nSeen + 1
    /\ lastSeen' = [who |-> who, err |-> err]

\* A buggy `?` that replaces the error by another.
QuestionMark_Other(err) == "Other"

\* The `?` of the facade on an io::Result: the error is returned as it is.
QuestionMark(err) == err

\* A buggy acquire that wraps a token it never read into an Acquired before
\* it returns the error.
AcquireReturnErr_MakesToken(t, kind) ==
    /\ tpc[t] = "acquire"
    /\ EngineFails(kind)
    /\ Seen("caller", QuestionMark(kind))
    /\ Return(t)
    /\ acq' = [acq EXCEPT ![NextTok] = NewAcquired(EngineOf(t), TokenByte)]
    /\ ArcClone(EngineOf(t))
    /\ UNCHANGED <<envVars, parseVars, limit, pool, ceng, thold, rawVars,
                   helperVars>>

\* Client::acquire when self.inner.acquire() fails: the error is returned
\* and no Acquired is made.
AcquireReturnErr(t, kind) ==
    /\ tpc[t] = "acquire"
    /\ EngineFails(kind)
    /\ Seen("caller", QuestionMark(kind))
    /\ Return(t)
    /\ UNCHANGED <<envVars, parseVars, limit, pool, strong, closed, ceng, acq,
                   thold, rawVars, helperVars>>

\* Client::try_acquire when self.inner.try_acquire() fails.
TryAcquireReturnErr(t, kind) ==
    /\ tpc[t] = "try_acquire"
    /\ EngineFails(kind)
    /\ Seen("caller", QuestionMark(kind))
    /\ Return(t)
    /\ UNCHANGED <<envVars, parseVars, limit, pool, strong, closed, ceng, acq,
                   thold, rawVars, helperVars>>

\* Client::acquire_raw when self.inner.acquire() fails.
AcquireRawReturnErr(t, kind) ==
    /\ tpc[t] = "acquire_raw"
    /\ EngineFails(kind)
    /\ Seen("caller", QuestionMark(kind))
    /\ Return(t)
    /\ UNCHANGED <<envVars, parseVars, limit, pool, strong, closed, ceng, acq,
                   thold, rawVars, helperVars>>

\* Client::release_raw when self.inner.release(None) fails: no byte is
\* written and the error is returned.
ReleaseRawErr(t, c, kind) ==
    /\ tpc[t] = "idle"
    /\ c \in clients
    /\ EngineFails(kind)
    /\ Seen("caller", QuestionMark(kind))
    /\ UNCHANGED <<envVars, parseVars, coreVars, helperVars>>

\* impl Drop for Acquired when the release fails: no byte is written, and
\* drop(..) throws the Result away.
AcquiredDropErr(a, p) ==
    [acq  |-> [a EXCEPT !.st = "dropped", !.releases = @ + 1],
     pool |-> p]

\* An Acquired value goes out of scope and its release fails.
DropAcquiredErr(k, kind) ==
    /\ acq[k].st = "live"
    /\ ~acq[k].disabled
    /\ EngineFails(kind)
    /\ LET e == acq[k].client
           r == AcquiredDropErr(acq[k], pool[e]) IN
        /\ acq' = [acq EXCEPT ![k] = r.acq]
        /\ pool' = [pool EXCEPT ![e] = r.pool]
        /\ ArcDrop(e)
    /\ UNCHANGED <<envVars, parseVars, nSeen, lastSeen, limit, ceng, threadVars,
                   rawVars, helperVars>>

\* f, the worker's closure, when client.acquire() fails: the user callback
\* is invoked with the error.
WAcquireErr(kind) ==
    /\ wpc = "acquire"
    /\ EngineFails(kind)
    /\ Seen("callback", kind)
    /\ callbacks' = callbacks + 1
    /\ wpc' = "callback"
    /\ UNCHANGED <<envVars, parseVars, coreVars, inner, lockOwner, hpc, weng,
                   nRequested>>

\* A thread that calls the client and then turns it into a helper, with an
\* engine whose calls may fail.
NextErr ==
    \/ \E c \in ClientIds : AcquireCall(1, c)
    \/ AcquireReturn(1, FALSE)
    \/ \E c \in ClientIds : TryAcquireCall(1, c)
    \/ TryAcquireReturn(1)
    \/ \E c \in ClientIds : AcquireRawCall(1, c)
    \/ AcquireRawReturn(1)
    \/ \E c \in ClientIds : ReleaseRaw(1, c)
    \/ \E k \in TokenIds : DropAcquired(k)
    \/ \E c \in ClientIds : IntoHelperThread(c)
    \/ RequestToken
    \/ RequestNotify
    \/ WLock
    \/ WCheck
    \/ WAcquire
    \/ WCallbackReturn
    \/ \E kind \in IoErrors : AcquireReturnErr(1, kind)
    \/ \E kind \in IoErrors : TryAcquireReturnErr(1, kind)
    \/ \E kind \in IoErrors : AcquireRawReturnErr(1, kind)
    \/ \E c \in ClientIds, kind \in IoErrors : ReleaseRawErr(1, c, kind)
    \/ \E k \in TokenIds, kind \in IoErrors : DropAcquiredErr(k, kind)
    \/ \E kind \in IoErrors : WAcquireErr(kind)

SpecErr == Init /\ [][NextErr]_vars

(* ==================== properties of the I/O errors ===================== *)
\* An Acquired value is dropped in this step.
DropsToken == \E k \in TokenIds : acq[k].st = "live" /\ acq'[k].st = "dropped"
\* The engine returns an error in this step.
EngineFailsNow == nEngErr' = nEngErr + 1

\* C20 as stated: every I/O error of the engine, that of the release made
\* when an Acquired is dropped included, reaches the caller (or the
\* callback) as it is.
C20_Original ==
    /\ nSeen = nEngErr
    /\ lastSeen.err = lastErr

\* C20 amended: an error of the engine in acquire, try_acquire, acquire_raw
\* or release_raw is returned to the caller as it is, and one in the helper's
\* acquire is passed to the callback as it is; the error of the release made
\* when an Acquired is dropped is thrown away and nobody sees it.
C20_ErrorsSurfaceExceptDrop ==
    /\ [][EngineFailsNow =>
            IF DropsToken
            THEN nSeen' = nSeen /\ lastSeen' = lastSeen
            ELSE /\ nSeen' = nSeen + 1
                 /\ lastSeen'.err = lastErr'
                 /\ lastSeen'.who =
                      (IF callbacks' = callbacks + 1 THEN "callback" ELSE "caller")
                 /\ (wpc = "acquire" /\ wpc' = "callback") <=> callbacks' = callbacks + 1
                 /\ callbacks' = callbacks =>
                      \/ tpc[1] \in {"acquire", "try_acquire", "acquire_raw"}
                             /\ tpc'[1] = "idle"
                      \/ tpc[1] = "idle" /\ tpc'[1] = "idle"]_vars
    /\ [][nSeen' # nSeen => EngineFailsNow]_vars
    /\ [](nSeen <= nEngErr)

\* C20 witness: an acquire failed and the caller got the error; then the
\* release of a dropped token failed and nobody was told.
C20_Witness ==
    /\ nEngErr = 2
    /\ nSeen = 1
    /\ lastSeen = [who |-> "caller", err |-> "EIO"]
    /\ lastErr = "EBADF"
    /\ \E k \in TokenIds : acq[k].st = "dropped" /\ acq[k].releases = 1
    /\ Len(pool[1]) < limit

\* A call of acquire, try_acquire or acquire_raw returns an error in this
\* step.
CallFails ==
    /\ tpc[1] \in {"acquire", "try_acquire", "acquire_raw"}
    /\ tpc'[1] = "idle"
    /\ nSeen' = nSeen + 1

\* C21: when acquire, try_acquire or acquire_raw returns an error, the pool
\* is as it was, no Acquired value has come to exist and no raw token is
\* counted as taken; every Acquired value that exists carries a byte that
\* was read, and no Acquired value is ever released more than once, so no
\* release is made for a failed call.
C21_NoTokenOnError ==
    /\ [][CallFails =>
            /\ pool' = pool
            /\ acq' = acq
            /\ strong' = strong
            /\ nAcquireRaw' = nAcquireRaw]_vars
    /\ [](\A k \in TokenIds :
            /\ acq[k].st # "none" => acq[k].data \in {TokenByte, PlusByte}
            /\ acq[k].releases <= 1)
    /\ [][\A k \in TokenIds : Created(k) =>
            /\ ~CallFails
            /\ nSeen' = nSeen
            /\ Len(pool'[1]) = Len(pool[1]) - 1]_vars

\* C21 witness: two calls on an empty pool failed; no Acquired value exists
\* and the pool is still empty.
C21_Witness ==
    /\ limit = 0
    /\ nEngErr = 2
    /\ nSeen = 2
    /\ tpc[1] = "idle"
    /\ \A k \in TokenIds : acq[k].st = "none"
    /\ nAcquireRaw = 0
    /\ pool[1] = <<>>

(* ============ more properties of the helper thread ===================== *)
\* C22: the worker holds the HelperState mutex only while it evaluates the
\* loop condition or leaves the loop, never while it is in acquire, runs
\* the callback or is parked on the condition variable; it enters acquire
\* only from the loop body, not from the wait; so a request_token or the
\* producer_done write of drop that meets a worker in acquire or in the
\* callback finds the mutex free, and the write of drop always gets done.
C22_LockNotHeldInAcquire ==
    /\ [](wpc \in {"acquire", "interrupted", "callback", "wait"} => lockOwner # "worker")
    /\ [](lockOwner = "worker" => wpc \in {"check", "finish"})
    /\ [][(~InAcquire /\ InAcquire') => (wpc = "check" /\ lockOwner = "worker")]_vars
    /\ []((hpc = "ready" /\ wpc \in {"acquire", "callback"}
             /\ nRequested < MaxRequests /\ CanReserve) => ENABLED RequestToken)
    /\ []((hpc = "drop_lock" /\ wpc \in {"acquire", "callback"}) => ENABLED DropSetDone)
    /\ (hpc = "drop_lock") ~> (hpc = "drop_notify")

\* C22 witness: on a pool that is empty the worker is blocked in acquire
\* for the first request while the second request has been counted.
C22_Witness ==
    /\ limit = 0
    /\ nReleaseRaw = 0
    /\ wpc = "acquire"
    /\ hpc = "req_notify"
    /\ nRequested = 2
    /\ inner.requests = 1
    /\ lockOwner = "none"

(* ================= lifetime of the engine and raw pairing ============== *)
\* The Client handles that share engine e.
HandlesOn(e) == {c \in clients : ceng[c] = e}
\* The Acquired values alive that hold a reference to engine e.
TokensOn(e) == {k \in LiveTokens : acq[k].client = e}
\* Acquired value k is dropped in this step and releases its token.
Releases(k) ==
    acq[k].st = "live" /\ acq'[k].st = "dropped" /\ ~acq'[k].disabled

\* C23: the engine's reference count is the number of Client handles plus
\* the number of Acquired values alive, so an engine with a token alive is
\* open even when no handle is left; the drop of a token writes its byte
\* into the pipe of an engine that is still open; the engine is closed
\* exactly when no handle and no token is left, and stays closed and
\* untouched from then on.
C23_TokenKeepsEngineAlive ==
    /\ [](\A e \in EngineIds :
            strong[e] = Cardinality(HandlesOn(e)) + Cardinality(TokensOn(e)))
    /\ [](\A e \in EngineIds : TokensOn(e) # {} => ~closed[e])
    /\ [](closed[1] <=> (HandlesOn(1) = {} /\ TokensOn(1) = {}))
    /\ [][\A k \in TokenIds : Releases(k) =>
            LET e == acq[k].client IN
            /\ ~closed[e]
            /\ pool'[e] = Append(pool[e], acq[k].data)]_vars
    /\ [][\A e \in EngineIds : closed[e] => (closed'[e] /\ pool'[e] = pool[e])]_vars

\* C23 witness: every Client handle has been dropped, a token is still alive
\* and its engine is open.
C23_Witness ==
    /\ clients = {}
    /\ TokensOn(1) # {}
    /\ ~closed[1]
    /\ strong[1] = Cardinality(TokensOn(1))

\* acquire, drop_without_releasing, release_raw in a row on engine e whose
\* pipe holds p: the pipe after each of the three calls.
PairLeak(e, p) ==
    LET a == ClientAcquire(e, p)
        d == AcquiredDrop([a.ret EXCEPT !.disabled = TRUE], a.pool)
    IN  <<a.pool, d.pool, EngineRelease(d.pool, NoData)>>

\* acquire_raw, release_raw in a row on a pipe that holds p: the pipe after
\* each of the two calls.
PairRaw(p) ==
    LET q == EngineTryAcquire(p).pool IN <<q, EngineRelease(q, NoData)>>

\* Acquired value k is dropped by drop_without_releasing in this step.
Leaks(k) ==
    acq[k].st = "live" /\ acq'[k].st = "dropped" /\ acq'[k].disabled

\* C24: the pipe holds `limit` bytes less those held plus those released
\* raw, so a token leaked by drop_without_releasing or taken by acquire_raw
\* leaves the pool one short until a release_raw makes it up; run in a row
\* on any pipe that holds a byte, either pairing leaves one byte less in
\* between and the former number at the end; release_raw writes the
\* placeholder byte, a dropped token writes the byte it read, and
\* drop_without_releasing writes nothing.
C24_RawPairingRestoresPool ==
    /\ [](Len(pool[1]) + Held = limit + nReleaseRaw)
    /\ [](EngineCanAcquire(pool[1]) =>
            LET p == pool[1]
                l == PairLeak(1, p)
                r == PairRaw(p) IN
            /\ Len(l[1]) = Len(p) - 1 /\ l[2] = l[1] /\ Len(l[3]) = Len(p)
            /\ Len(r[1]) = Len(p) - 1 /\ Len(r[2]) = Len(p)
            /\ l[3] = Append(Tail(p), PlusByte)
            /\ r[2] = Append(Tail(p), PlusByte))
    /\ [][nReleaseRaw' # nReleaseRaw =>
            /\ pool'[1] = Append(pool[1], PlusByte)
            /\ acq' = acq /\ nAcquireRaw' = nAcquireRaw]_vars
    /\ [][nAcquireRaw' # nAcquireRaw =>
            /\ pool'[1] = Tail(pool[1])
            /\ acq' = acq /\ nReleaseRaw' = nReleaseRaw]_vars
    /\ [][\A k \in TokenIds :
            /\ Created(k) => acq'[k].data = Head(pool[1])
            /\ Releases(k) => pool'[1] = Append(pool[1], acq[k].data)
            /\ Leaks(k) => pool' = pool
            /\ acq[k].st = "live" => acq'[k].data = acq[k].data]_vars

\* C24 witness: a token was acquired and dropped without releasing, then
\* release_raw was called: the pool holds `limit` bytes again, the last of
\* them the placeholder.
C24_Witness ==
    /\ limit >= 1
    /\ Leaked # {}
    /\ LiveTokens = {}
    /\ nAcquireRaw = 0
    /\ nReleaseRaw = 1
    /\ Len(pool[1]) = limit
    /\ pool[1][Len(pool[1])] = PlusByte
    /\ \A t \in Threads : tpc[t] = "idle"

(* ===================== shutdown of the helper thread =================== *)
\* C25: once producer_done is set the worker begins no acquire, whatever
\* the number of requests queued, and consumes none of them; outside an
\* acquire begun before, no callback follows; consumer_done is set only
\* with producer_done set, by the one step that ends the loop, and from
\* then on the worker is gone: no acquire, no callback, no token, no
\* change of the request count.
C25_ShutdownDiscardsRequests ==
    /\ [][inner.producer_done =>
            /\ inner'.producer_done
            /\ inner'.requests = inner.requests
            /\ (~InAcquire => (~InAcquire' /\ callbacks' = callbacks))]_vars
    /\ [](inner.consumer_done => (inner.producer_done /\ wpc = "exited"))
    /\ [][inner'.consumer_done # inner.consumer_done =>
            /\ ~inner.consumer_done
            /\ inner.producer_done
            /\ wpc = "finish" /\ wpc' = "exited"]_vars
    /\ [][inner.consumer_done =>
            /\ inner' = inner
            /\ wpc' = wpc
            /\ callbacks' = callbacks
            /\ \A k \in TokenIds : ~Created(k)]_vars

\* C25 witness: the HelperThread was dropped with a request still queued;
\* the worker has ended and the request got no callback.
C25_Witness ==
    /\ hpc = "dropped"
    /\ inner.producer_done
    /\ inner.consumer_done
    /\ inner.requests > 0
    /\ callbacks + inner.requests = nRequested
    /\ EngineCanAcquire(pool[1])

====
